---------------------------- MODULE Spec2Model ----------------------------
(***************************************************************************)
(* Model of the GameRoom durable object of time-auction (the per-table     *)
(* round coordinator): player sessions, round phases, bid timing, round    *)
(* resolution, the single storage alarm, persistence and reconnects.       *)
(* One action per event handler; a handler runs to completion (the input   *)
(* gate of a durable object admits no other event while one is awaiting    *)
(* storage).                                                               *)
(***************************************************************************)
EXTENDS Integers, Sequences, FiniteSets, TLC

(* ---- program constants (shared/constants.ts) ---- *)
TIE_THRESHOLD_MS == 100
PRE_ROUND_COUNTDOWN_MS == 3000
ROUND_RESULTS_DISPLAY_MS == 5000
RECONNECT_WINDOW_MS == 30000
MAX_LATENCY_COMPENSATION_MS == 200

(* ---- table settings, as written by the create-table route ---- *)
startingTimeMs == 60000
maxPlayers == 2
gracePeriodMs == 5000
NumRoundsChoices == {1, 2}
Settings(rounds) ==
    [startingTimeMs |-> startingTimeMs, numRounds |-> rounds,
     maxPlayers |-> maxPlayers, gracePeriodMs |-> gracePeriodMs]

(* ---- bounds of the model ---- *)
MaxConns == 2
MaxPlayerIds == 2
MaxTicks == 1
MaxRoundsPlayed == 1
MaxFaults == 1

(* null of a nullable number or id *)
Null == -1

(* the instants by which the clock may advance between two events *)
TickSteps == {50, 60000}
(* clientTimestamp - Date.now() of a bidStart / bidEnd message *)
ClientSkews == {0, 300}

(* display names; Lower is String.prototype.toLowerCase on them *)
Names == {"ann", "ANN", "bob", "cy"}
BaseNames == <<"ann", "bob", "cy">>
Lower(n) == IF n = "ANN" THEN "ann" ELSE n

(* passwords a join may carry (Null: none); the table's password *)
Passwords == {"pw", "bad"}
hashPassword(pw) == <<"sha256", pw>>
NoHash == <<"none">>

Wss == 1 .. MaxConns

Min(a, b) == IF a < b THEN a ELSE b
Max(a, b) == IF a > b THEN a ELSE b
Abs(a) == IF a < 0 THEN -a ELSE a

VARIABLES
    tableState,   \* this.tableState: settings, passwordHash, status, hostId, currentRound, roundPhase, phaseStartTime, roundHistory
    players,      \* this.players: the Map in insertion order, a sequence of PlayerSession
    stored,       \* storage records 'tableState' and 'players'
    alarmAt,      \* the object's single storage alarm (Null: none)
    sockets,      \* accepted WebSockets: state and serialized attachment
    now,          \* Date.now()
    ticks,        \* clock advances used so far
    nextId,       \* next fresh crypto.randomUUID()
    faults,       \* disturbances so far: drops, evictions, kicks, leaves, re-joins, restarts of the game, skewed client clocks
    graceEndedAt, \* history: when the alarm last ended a grace period (Null: never)
    hook          \* the client hook useWebSocket of one browser tab: its refs, its state, the WebSockets it created and its pending timeouts

vars == <<tableState, players, stored, alarmAt, sockets, now, ticks, nextId, faults, graceEndedAt, hook>>

(* ---- the roster ---- *)
Idx(ps) == 1 .. Len(ps)
Ids(ps) == {ps[i].id : i \in Idx(ps)}
Has(ps, id) == id \in Ids(ps)
IndexOf(ps, id) == CHOOSE i \in Idx(ps) : ps[i].id = id
Get(ps, id) == ps[IndexOf(ps, id)]
Delete(ps, id) == SelectSeq(ps, LAMBDA p : p.id # id)

(* a lookup that takes a socket without a session for the first session *)
getSessionFromWs_firstSession(ws) ==
    IF sockets[ws].playerId # Null /\ Has(players, sockets[ws].playerId)
    THEN sockets[ws].playerId
    ELSE IF players # << >> THEN players[1].id ELSE Null

(* getSessionFromWs: the attachment's player id if that session exists *)
getSessionFromWs(ws) ==
    IF sockets[ws].playerId # Null /\ Has(players, sockets[ws].playerId)
    THEN sockets[ws].playerId ELSE Null

(* getWebSockets(): the accepted sockets that are not closed *)
getWebSockets == {w \in Wss : sockets[w].state = "open"}

(* ---- messages ---- *)
Msg(to, type, arg) == [to |-> to, type |-> type, arg |-> arg]
send(ws, type, arg) == {Msg(ws, type, arg)}
(* an error that goes to every open socket instead of the sender *)
sendError_toAll(ws, code) == {Msg(w, "error", code) : w \in getWebSockets}
sendError(ws, code) == send(ws, "error", code)
broadcast(type, arg, exclude) == {Msg(w, type, arg) : w \in getWebSockets \ {exclude}}

(* ---- latency compensation (handleBidStart / handleBidEnd) ---- *)
(* a compensation without the cap *)
Latency_unclamped(serverTime, clientTimestamp) == Abs(serverTime - clientTimestamp)

Latency(serverTime, clientTimestamp) ==
    Min(Abs(serverTime - clientTimestamp), MAX_LATENCY_COMPENSATION_MS)
AdjustedTime(serverTime, clientTimestamp) ==
    serverTime - Latency(serverTime, clientTimestamp)

(* a bid duration computed without looking at the phase *)
BidDuration_ignoresPhase(phase, phaseStartTime, bidStartTime, bidEndTime) ==
    Max(0, bidEndTime - Max(bidStartTime, phaseStartTime))

(* ---- bid duration recorded by handleBidEnd ---- *)
BidDuration(phase, phaseStartTime, bidStartTime, bidEndTime) ==
    IF phase # "bidding" THEN 0
    ELSE LET graceEndTime == phaseStartTime
             effectiveStart == Max(bidStartTime, graceEndTime)
         IN  Max(0, bidEndTime - effectiveStart)

(* a deduction that is not floored at zero *)
Deduct_notFloored(timeRemaining, bidMs) == timeRemaining - bidMs

(* ---- round resolution (endRound) ---- *)
Deduct(timeRemaining, bidMs) == Max(0, timeRemaining - bidMs)

(* a leader pass whose strict leader does not restart the tie count *)
LeaderStep_keepsTieCount(acc, p) ==
    LET bidMs == p.currentBidMs IN
    IF bidMs <= 0 THEN acc
    ELSE IF bidMs > acc.maxBid + TIE_THRESHOLD_MS
         THEN [maxBid |-> bidMs, winnerId |-> p.id, tieCount |-> acc.tieCount + 1]
    ELSE IF Abs(bidMs - acc.maxBid) <= TIE_THRESHOLD_MS /\ bidMs >= acc.maxBid
         THEN [maxBid |-> IF bidMs > acc.maxBid THEN bidMs ELSE acc.maxBid,
               winnerId |-> IF bidMs > acc.maxBid THEN p.id ELSE acc.winnerId,
               tieCount |-> acc.tieCount + 1]
    ELSE acc

(* one step of the leader / tie pass, acc = [maxBid, winnerId, tieCount] *)
LeaderStep(acc, p) ==
    LET bidMs == p.currentBidMs IN
    IF bidMs <= 0 THEN acc
    ELSE IF bidMs > acc.maxBid + TIE_THRESHOLD_MS
         THEN [maxBid |-> bidMs, winnerId |-> p.id, tieCount |-> 1]
    ELSE IF Abs(bidMs - acc.maxBid) <= TIE_THRESHOLD_MS /\ bidMs >= acc.maxBid
         THEN [maxBid |-> IF bidMs > acc.maxBid THEN bidMs ELSE acc.maxBid,
               winnerId |-> IF bidMs > acc.maxBid THEN p.id ELSE acc.winnerId,
               tieCount |-> acc.tieCount + 1]
    ELSE acc

RECURSIVE LeaderPass(_, _, _)
LeaderPass(ps, i, acc) ==
    IF i > Len(ps) THEN acc
    ELSE LeaderPass(ps, i + 1, LeaderStep(acc, ps[i]))

Resolve(ps) ==
    LET acc == LeaderPass(ps, 1, [maxBid |-> 0, winnerId |-> Null, tieCount |-> 0])
        wasTie == acc.tieCount > 1
    IN  [maxBid |-> acc.maxBid,
         winnerId |-> IF wasTie THEN Null ELSE acc.winnerId,
         wasTie |-> wasTie]

RoundResultOf(ps, round) ==
    LET r == Resolve(ps) IN
    [roundNumber |-> round,
     winnerId |-> r.winnerId,
     winningBidMs |-> r.maxBid,
     wasTie |-> r.wasTie,
     playerResults |-> [i \in Idx(ps) |->
         [playerId |-> ps[i].id, bidMs |-> ps[i].currentBidMs,
          participated |-> ps[i].currentBidMs > 0]]]

(* a resolution that charges the bid to the losers only *)
AfterRound_winnerNotCharged(ps, round) ==
    LET r == Resolve(ps) IN
    [i \in Idx(ps) |->
        LET p == ps[i] IN
        IF r.winnerId # Null /\ p.id = r.winnerId
        THEN [p EXCEPT !.victoryPoints = @ + 1, !.lastWinRound = round]
        ELSE IF p.currentBidMs > 0
        THEN [p EXCEPT !.timeRemainingMs = Deduct(p.timeRemainingMs, p.currentBidMs)]
        ELSE p]

(* players after deduction and the victory point *)
AfterRound(ps, round) ==
    LET r == Resolve(ps) IN
    [i \in Idx(ps) |->
        LET p == ps[i]
            q == IF p.currentBidMs > 0
                 THEN [p EXCEPT !.timeRemainingMs = Deduct(p.timeRemainingMs, p.currentBidMs)]
                 ELSE p
        IN  IF r.winnerId # Null /\ p.id = r.winnerId
            THEN [q EXCEPT !.victoryPoints = @ + 1, !.lastWinRound = round]
            ELSE q]

(* ---- persistence ---- *)
Snapshot(ts, ps) == [tableState |-> ts, players |-> ps]

(* a load that also forgets the ready flags *)
Loaded_notReady(ps) ==
    [i \in Idx(ps) |-> [ps[i] EXCEPT !.isConnected = FALSE, !.isReady = FALSE]]

(* loadState of a fresh instance: every stored session comes back disconnected *)
Loaded(ps) == [i \in Idx(ps) |-> [ps[i] EXCEPT !.isConnected = FALSE]]

(* loadState: what is in memory afterwards, given the initialized flag, the
   memory mem = [ts, ps] before and the stored records st *)
loadState(initialized, mem, st) ==
    IF initialized THEN mem
    ELSE [ts |-> st.tableState, ps |-> Loaded(st.players)]

(* ---- sessions ---- *)
TokenOf(id) == 1000 + id
NoPassword == ""

NewSession(ts, id, name, isHost) ==
    [id |-> id, displayName |-> name, reconnectToken |-> TokenOf(id),
     isHost |-> isHost, isReady |-> FALSE, isConnected |-> TRUE,
     timeRemainingMs |-> ts.settings.startingTimeMs, victoryPoints |-> 0, lastWinRound |-> Null,
     bidStartTime |-> Null, bidEndTime |-> Null, currentBidMs |-> 0,
     hasReleasedThisRound |-> FALSE]

(* a reset that leaves the recorded bid and the released flag *)
ResetBids_keepsBid(ps) ==
    [i \in Idx(ps) |-> [ps[i] EXCEPT !.bidStartTime = Null, !.bidEndTime = Null]]

ResetBids(ps) ==
    [i \in Idx(ps) |-> [ps[i] EXCEPT !.bidStartTime = Null, !.bidEndTime = Null,
                                     !.currentBidMs = 0, !.hasReleasedThisRound = FALSE]]

(* names a new join may carry: the first base name that is free, or any name
   colliding (ignoring case) with one of the roster *)
LowerNames(ps) == {Lower(ps[i].displayName) : i \in Idx(ps)}
FreeBase(ps) == {k \in 1 .. Len(BaseNames) : BaseNames[k] \notin LowerNames(ps)}
JoinNames(ps) ==
    {n \in Names : Lower(n) \in LowerNames(ps)}
    \cup (IF FreeBase(ps) = {} THEN {}
          ELSE {BaseNames[CHOOSE k \in FreeBase(ps) : \A j \in FreeBase(ps) : k <= j]})

(* password check of handleJoin: the error it answers, or "ok" *)
PasswordCheck(passwordHash, password) ==
    IF passwordHash = NoHash THEN "ok"
    ELSE IF password = NoPassword THEN "INVALID_PASSWORD"
    ELSE IF hashPassword(password) # passwordHash THEN "INVALID_PASSWORD"
    ELSE "ok"

(* the session a reconnect token matches (Null: none) *)
TokenMatch(ps, token) ==
    IF token # Null /\ \E i \in Idx(ps) : ps[i].reconnectToken = token
    THEN (CHOOSE i \in Idx(ps) : ps[i].reconnectToken = token /\
              \A j \in Idx(ps) : ps[j].reconnectToken = token => i <= j)
    ELSE 0

(* a join whose name check compares the names as written *)
JoinDecision_caseSensitiveNames(ts, ps, name, password, token) ==
    IF PasswordCheck(ts.passwordHash, password) # "ok" THEN "INVALID_PASSWORD"
    ELSE IF TokenMatch(ps, token) # 0 THEN "reconnect"
    ELSE IF ts.status # "lobby" THEN "GAME_ALREADY_STARTED"
    ELSE IF Len(ps) >= ts.settings.maxPlayers THEN "TABLE_FULL"
    ELSE IF name \in {ps[i].displayName : i \in Idx(ps)} THEN "NAME_TAKEN"
    ELSE "create"

(* a join that is not checked against the capacity of the table *)
JoinDecision_noCapacityCheck(ts, ps, name, password, token) ==
    IF PasswordCheck(ts.passwordHash, password) # "ok" THEN "INVALID_PASSWORD"
    ELSE IF TokenMatch(ps, token) # 0 THEN "reconnect"
    ELSE IF ts.status # "lobby" THEN "GAME_ALREADY_STARTED"
    ELSE IF Lower(name) \in LowerNames(ps) THEN "NAME_TAKEN"
    ELSE "create"

(* what handleJoin decides: "INVALID_PASSWORD", "reconnect", "GAME_ALREADY_STARTED",
   "TABLE_FULL", "NAME_TAKEN" or "create" *)
JoinDecision(ts, ps, name, password, token) ==
    IF PasswordCheck(ts.passwordHash, password) # "ok" THEN "INVALID_PASSWORD"
    ELSE IF TokenMatch(ps, token) # 0 THEN "reconnect"
    ELSE IF ts.status # "lobby" THEN "GAME_ALREADY_STARTED"
    ELSE IF Len(ps) >= ts.settings.maxPlayers THEN "TABLE_FULL"
    ELSE IF Lower(name) \in LowerNames(ps) THEN "NAME_TAKEN"
    ELSE "create"

(* ---- round completion (checkRoundEnd) ---- *)
AllReleased(ps) ==
    \A i \in Idx(ps) : ps[i].isConnected =>
        (ps[i].hasReleasedThisRound \/ ps[i].bidStartTime = Null)

RoundEnds(ts, ps) == ts.roundPhase = "bidding" /\ AllReleased(ps)

(* endRound at time t: the table, the roster *)
EndRoundTable(ts, ps, t) ==
    [ts EXCEPT !.roundPhase = "resolution", !.phaseStartTime = t,
               !.roundHistory = Append(@, RoundResultOf(ps, ts.currentRound))]

(* ---- what a handler does: the table, roster, sockets, alarm and id counter it
   leaves, whether it called saveState, and the messages it sent ---- *)
Same ==
    [ts |-> tableState, ps |-> players, socks |-> sockets, alarm |-> alarmAt,
     next |-> nextId, save |-> FALSE, out |-> {}]
Reply(out) == [Same EXCEPT !.out = out]

Apply(r) ==
    /\ tableState' = r.ts
    /\ players' = r.ps
    /\ sockets' = r.socks
    /\ alarmAt' = r.alarm
    /\ nextId' = r.next
    /\ stored' = IF r.save THEN Snapshot(r.ts, r.ps) ELSE stored

(* a client message arrives on an open socket *)
Open(ws) == sockets[ws].state = "open"

(* handleJoin *)
handleJoin(ws, name, password, token) ==
    LET d == JoinDecision(tableState, players, name, password, token) IN
    IF d = "reconnect"
    THEN LET i == TokenMatch(players, token) IN
         [Same EXCEPT
            !.ps = [players EXCEPT ![i].isConnected = TRUE],
            !.socks = [sockets EXCEPT ![ws].playerId = players[i].id],
            !.save = TRUE,
            !.out = send(ws, "welcome", players[i].id)
                    \cup broadcast("playerReconnected", players[i].id, Null)
                    \cup send(ws, IF tableState.status = "lobby"
                                  THEN "lobbyState" ELSE "gameState", Null)]
    ELSE IF d = "create"
    THEN LET isHost == Len(players) = 0 IN
         [Same EXCEPT
            !.ps = Append(players, NewSession(tableState, nextId, name, isHost)),
            !.socks = [sockets EXCEPT ![ws].playerId = nextId],
            !.ts = IF isHost THEN [tableState EXCEPT !.hostId = nextId] ELSE tableState,
            !.next = nextId + 1,
            !.save = TRUE,
            !.out = send(ws, "welcome", nextId)
                    \cup broadcast("lobbyState", Null, Null)
                    \cup broadcast("playerJoined", nextId, ws)]
    ELSE Reply(sendError(ws, d))

(* handleReady *)
handleReady(ws, isReady) ==
    LET id == getSessionFromWs(ws) IN
    IF id = Null \/ tableState.status # "lobby" THEN Same
    ELSE [Same EXCEPT
            !.ps = [players EXCEPT ![IndexOf(players, id)].isReady = isReady],
            !.save = TRUE,
            !.out = broadcast("playerReady", id, Null)]

(* a start that does not require the players to be ready *)
StartDecision_noReadyCheck(ps, id) ==
    IF ~Get(ps, id).isHost THEN "NOT_HOST"
    ELSE IF Len(ps) < 2 THEN "NOT_ENOUGH_PLAYERS"
    ELSE "start"

(* what handleStartGame decides for a requester with a session *)
StartDecision(ps, id) ==
    IF ~Get(ps, id).isHost THEN "NOT_HOST"
    ELSE IF Len(ps) < 2 THEN "NOT_ENOUGH_PLAYERS"
    ELSE IF ~(\A i \in Idx(ps) : ps[i].isReady) THEN "PLAYERS_NOT_READY"
    ELSE "start"

(* handleStartGame *)
handleStartGame(ws) ==
    LET id == getSessionFromWs(ws) IN
    IF id = Null THEN Same
    ELSE LET d == StartDecision(players, id) IN
         IF d # "start" THEN Reply(sendError(ws, d))
         ELSE [Same EXCEPT
                 !.ts = [tableState EXCEPT !.status = "playing", !.currentRound = 1,
                             !.roundPhase = "pre_round", !.phaseStartTime = now],
                 !.alarm = now + PRE_ROUND_COUNTDOWN_MS,
                 !.ps = ResetBids(players),
                 !.save = TRUE,
                 !.out = broadcast("gameStarting", Null, Null)
                         \cup broadcast("roundStart", 1, Null)]

(* guards of handleBidStart that leave out the phase *)
BidStartAccepted_anyPhase(ts, p) ==
    /\ ts.status = "playing"
    /\ p.bidStartTime = Null

(* the guards of handleBidStart *)
BidStartAccepted(ts, p) ==
    /\ ts.status = "playing"
    /\ ts.roundPhase \in {"grace_period", "bidding"}
    /\ p.bidStartTime = Null

(* handleBidStart *)
handleBidStart(ws, clientTimestamp) ==
    LET id == getSessionFromWs(ws) IN
    IF id = Null \/ ~BidStartAccepted(tableState, Get(players, id)) THEN Same
    ELSE [Same EXCEPT
            !.ps = [players EXCEPT ![IndexOf(players, id)].bidStartTime =
                                       AdjustedTime(now, clientTimestamp)],
            !.save = TRUE,
            !.out = broadcast("bidUpdate", id, Null)]

(* the session after handleBidEnd recorded the release *)
Released(ts, p, bidEndTime) ==
    [p EXCEPT !.currentBidMs = BidDuration(ts.roundPhase, ts.phaseStartTime,
                                           p.bidStartTime, bidEndTime),
              !.hasReleasedThisRound = TRUE,
              !.bidStartTime = Null, !.bidEndTime = Null]

(* handleBidEnd, with checkRoundEnd and endRound *)
handleBidEnd(ws, clientTimestamp) ==
    LET id == getSessionFromWs(ws) IN
    IF id = Null \/ Get(players, id).bidStartTime = Null THEN Same
    ELSE LET i == IndexOf(players, id)
             ps == [players EXCEPT ![i] =
                       Released(tableState, players[i], AdjustedTime(now, clientTimestamp))]
             upd == broadcast("bidUpdate", id, Null)
         IN  IF RoundEnds(tableState, ps)
             THEN [Same EXCEPT
                     !.ts = EndRoundTable(tableState, ps, now),
                     !.ps = AfterRound(ps, tableState.currentRound),
                     !.alarm = now + ROUND_RESULTS_DISPLAY_MS,
                     !.save = TRUE,
                     !.out = upd \cup broadcast("roundEnd", tableState.currentRound, Null)]
             ELSE [Same EXCEPT !.ps = ps, !.save = TRUE, !.out = upd]

(* the open sockets whose attachment names the player *)
SocketsOf(id) == {w \in getWebSockets : sockets[w].playerId = id}

(* handleKick without its host guard *)
handleKick_noHostCheck(ws, playerId, w) ==
    LET id == getSessionFromWs(ws) IN
    IF id = Null THEN Same
    ELSE IF playerId = id THEN Reply(sendError(ws, "INVALID_ACTION"))
    ELSE IF ~Has(players, playerId) THEN Same
    ELSE [Same EXCEPT
            !.socks = IF w = Null THEN sockets ELSE [sockets EXCEPT ![w].state = "closing"],
            !.ps = Delete(players, playerId),
            !.save = TRUE,
            !.out = (IF w = Null THEN {} ELSE send(w, "playerKicked", playerId))
                    \cup broadcast("playerLeft", playerId, w)]

(* handleKick; w is the socket of the target that the loop over getWebSockets()
   finds first (Null: none) *)
handleKick(ws, playerId, w) ==
    LET id == getSessionFromWs(ws) IN
    IF id = Null THEN Same
    ELSE IF ~Get(players, id).isHost THEN Reply(sendError(ws, "NOT_HOST"))
    ELSE IF playerId = id THEN Reply(sendError(ws, "INVALID_ACTION"))
    ELSE IF ~Has(players, playerId) THEN Same
    ELSE [Same EXCEPT
            !.socks = IF w = Null THEN sockets ELSE [sockets EXCEPT ![w].state = "closing"],
            !.ps = Delete(players, playerId),
            !.save = TRUE,
            !.out = (IF w = Null THEN {} ELSE send(w, "playerKicked", playerId))
                    \cup broadcast("playerLeft", playerId, w)]

(* handleLeave *)
handleLeave(ws) ==
    LET id == getSessionFromWs(ws) IN
    IF id = Null THEN Same
    ELSE [Same EXCEPT
            !.ps = IF tableState.status = "lobby" THEN Delete(players, id)
                   ELSE [players EXCEPT ![IndexOf(players, id)].isConnected = FALSE],
            !.socks = [sockets EXCEPT ![ws].state = "closing"],
            !.save = TRUE,
            !.out = IF tableState.status = "lobby"
                    THEN broadcast("playerLeft", id, Null) ELSE {}]

(* webSocketMessage, a message that JSON.parse or handleMessage throws on
   (not JSON, null, a join without a name while a session exists): the catch
   answers INVALID_ACTION *)
webSocketMessageInvalid(ws) == Reply(sendError(ws, "INVALID_ACTION"))

(* webSocketClose / webSocketError *)
webSocketClose(ws) ==
    LET id == getSessionFromWs(ws)
        closed == [sockets EXCEPT ![ws].state = "closed"]
    IN  IF id = Null THEN [Same EXCEPT !.socks = closed]
        ELSE [Same EXCEPT
                !.socks = closed,
                !.ps = [players EXCEPT ![IndexOf(players, id)].isConnected = FALSE],
                !.alarm = now + RECONNECT_WINDOW_MS,
                !.save = TRUE,
                !.out = broadcast("playerDisconnected", id, ws)]

(* ---- endGame: the final standings ---- *)
(* lastWinRound ?? 0 *)
LastWinOrZero(p) == IF p.lastWinRound = Null THEN 0 ELSE p.lastWinRound

(* a comparator that leaves out the last-win round *)
compareStandings_noLastWin(a, b) ==
    IF b.victoryPoints # a.victoryPoints THEN b.victoryPoints - a.victoryPoints
    ELSE b.timeRemainingMs - a.timeRemainingMs

(* the comparator given to sort: negative puts a before b *)
compareStandings(a, b) ==
    IF b.victoryPoints # a.victoryPoints THEN b.victoryPoints - a.victoryPoints
    ELSE IF b.timeRemainingMs # a.timeRemainingMs THEN b.timeRemainingMs - a.timeRemainingMs
    ELSE LastWinOrZero(b) - LastWinOrZero(a)

(* Array.prototype.sort, a stable sort: x goes behind every element of the
   sorted s that the comparator does not put after it *)
RECURSIVE InsertSorted(_, _)
InsertSorted(s, x) ==
    IF s = << >> THEN <<x>>
    ELSE IF compareStandings(s[Len(s)], x) > 0
         THEN Append(InsertSorted(SubSeq(s, 1, Len(s) - 1), x), s[Len(s)])
         ELSE Append(s, x)

RECURSIVE Sorted(_)
Sorted(ps) ==
    IF ps = << >> THEN << >>
    ELSE InsertSorted(Sorted(SubSeq(ps, 1, Len(ps) - 1)), ps[Len(ps)])

(* the standings of the gameEnd message: map, sort, rank = i + 1 (0-based i) *)
Standings(ps) ==
    LET sorted == Sorted(ps) IN
    [i \in 1 .. Len(ps) |->
        [rank |-> i, playerId |-> sorted[i].id,
         victoryPoints |-> sorted[i].victoryPoints,
         timeRemainingMs |-> sorted[i].timeRemainingMs,
         lastWinRound |-> sorted[i].lastWinRound]]

(* alarm: the phase transition at time t *)
PhaseStep(ts, ps, t) ==
    IF ts.status # "playing"
    THEN [ts |-> ts, ps |-> ps, alarm |-> Null, out |-> {}]
    ELSE IF ts.roundPhase = "pre_round"
    THEN [ts |-> [ts EXCEPT !.roundPhase = "grace_period", !.phaseStartTime = t],
          ps |-> ps, alarm |-> t + ts.settings.gracePeriodMs,
          out |-> broadcast("roundActive", t + ts.settings.gracePeriodMs, Null)]
    ELSE IF ts.roundPhase = "grace_period"
    THEN LET bidding == [ts EXCEPT !.roundPhase = "bidding"] IN
         IF RoundEnds(bidding, ps)
         THEN [ts |-> EndRoundTable(bidding, ps, t),
               ps |-> AfterRound(ps, ts.currentRound),
               alarm |-> t + ROUND_RESULTS_DISPLAY_MS,
               out |-> broadcast("graceExpired", Null, Null)
                       \cup broadcast("roundEnd", ts.currentRound, Null)]
         ELSE [ts |-> bidding, ps |-> ps, alarm |-> Null,
               out |-> broadcast("graceExpired", Null, Null)]
    ELSE IF ts.roundPhase = "resolution"
    THEN IF ts.currentRound >= ts.settings.numRounds
         THEN [ts |-> [ts EXCEPT !.status = "finished"], ps |-> ps, alarm |-> Null,
               out |-> broadcast("gameEnd", Standings(ps), Null)]
         ELSE [ts |-> [ts EXCEPT !.currentRound = @ + 1, !.roundPhase = "pre_round",
                                 !.phaseStartTime = t],
               ps |-> ResetBids(ps), alarm |-> t + PRE_ROUND_COUNTDOWN_MS,
               out |-> broadcast("roundStart", ts.currentRound + 1, Null)]
    ELSE [ts |-> ts, ps |-> ps, alarm |-> Null, out |-> {}]

(* alarm: removal of the disconnected players while in lobby *)
Cleanup(ts, ps) ==
    IF ts.status = "lobby" THEN SelectSeq(ps, LAMBDA p : p.isConnected) ELSE ps

(* alarm: host reassignment, as [table, roster] *)
AssignHost(ts, ps) ==
    IF (ts.hostId = Null \/ ~Has(ps, ts.hostId)) /\ (\E i \in Idx(ps) : ps[i].isConnected)
    THEN LET f == CHOOSE i \in Idx(ps) :
                     ps[i].isConnected /\ \A j \in Idx(ps) : ps[j].isConnected => i <= j
         IN  [ts |-> [ts EXCEPT !.hostId = ps[f].id],
              ps |-> [ps EXCEPT ![f].isHost = TRUE]]
    ELSE [ts |-> ts, ps |-> ps]

(* an alarm handler whose phase transitions arm no following alarm *)
alarm_armsNothing(t) ==
    LET step == PhaseStep(tableState, players, t)
        kept == Cleanup(step.ts, step.ps)
        host == AssignHost(step.ts, kept)
    IN  [Same EXCEPT
           !.ts = host.ts,
           !.ps = host.ps,
           !.alarm = Null,
           !.save = TRUE,
           !.out = step.out
                   \cup {Msg(w, "playerLeft", id) :
                           w \in getWebSockets, id \in Ids(step.ps) \ Ids(kept)}
                   \cup (IF host.ts # step.ts \/ host.ps # kept
                         THEN broadcast("lobbyState", Null, Null) ELSE {})]

(* alarm, fired at time t *)
alarm(t) ==
    LET step == PhaseStep(tableState, players, t)
        kept == Cleanup(step.ts, step.ps)
        host == AssignHost(step.ts, kept)
    IN  [Same EXCEPT
           !.ts = host.ts,
           !.ps = host.ps,
           !.alarm = step.alarm,
           !.save = TRUE,
           !.out = step.out
                   \cup {Msg(w, "playerLeft", id) :
                           w \in getWebSockets, id \in Ids(step.ps) \ Ids(kept)}
                   \cup (IF host.ts # step.ts \/ host.ps # kept
                         THEN broadcast("lobbyState", Null, Null) ELSE {})]

(* ---- the client hook before its component is mounted ---- *)
HookUnmounted ==
    [wsRef |-> Null, reconnectTimeoutRef |-> Null, isConnected |-> FALSE,
     webSockets |-> << >>, timers |-> {}, nextTimer |-> 1,
     tableId |-> Null, mounted |-> FALSE, disconnected |-> FALSE]

(* ---- the state after the create-table route initialised the object ---- *)
Init ==
    /\ hook = HookUnmounted
    /\ \E h \in {NoHash, hashPassword("pw")}, n \in NumRoundsChoices :
          tableState = [status |-> "lobby", hostId |-> Null, currentRound |-> 0,
                        roundPhase |-> "pre_round", phaseStartTime |-> 1000,
                        roundHistory |-> << >>, passwordHash |-> h,
                        settings |-> Settings(n)]
    /\ players = << >>
    /\ stored = Snapshot(tableState, players)
    /\ alarmAt = Null
    /\ sockets = [w \in Wss |-> [state |-> "none", playerId |-> Null]]
    /\ now = 1000
    /\ ticks = 0
    /\ nextId = 1
    /\ faults = 0
    /\ graceEndedAt = Null

(* ---- events ---- *)

(* a handler that disturbs the run uses one unit of the budget *)
Fault(disturbs) ==
    /\ disturbs => faults < MaxFaults
    /\ faults' = IF disturbs THEN faults + 1 ELSE faults

(* fetch with Upgrade: websocket: acceptWebSocket *)
Connect(ws) ==
    /\ sockets[ws].state = "none"
    /\ \A w \in Wss : w < ws => sockets[w].state # "none"
    /\ sockets' = [sockets EXCEPT ![ws].state = "open"]
    /\ UNCHANGED <<tableState, players, stored, alarmAt, now, ticks, nextId, faults, graceEndedAt, hook>>

(* the clock advances by d while a hold can be in progress; an alarm that is
   due fires first.  Elsewhere no handler reads the clock except to arm the
   alarm, and the Alarm action advances the clock to the alarm's time. *)
Tick(d) ==
    /\ ticks < MaxTicks
    /\ tableState.status = "playing"
    /\ tableState.roundPhase \in {"grace_period", "bidding"}
    /\ alarmAt # Null => now + d <= alarmAt
    /\ now' = now + d
    /\ ticks' = ticks + 1
    /\ UNCHANGED <<tableState, players, stored, alarmAt, sockets, nextId, faults, graceEndedAt, hook>>

(* the instance is evicted while hibernating; the next event runs loadState *)
Restart ==
    /\ Fault(TRUE)
    /\ LET mem == loadState(FALSE, [ts |-> tableState, ps |-> players], stored) IN
          /\ tableState' = mem.ts
          /\ players' = mem.ps
    /\ UNCHANGED <<stored, alarmAt, sockets, now, ticks, nextId, graceEndedAt, hook>>

Join(ws, name, password, token) ==
    /\ Open(ws)
    /\ JoinDecision(tableState, players, name, password, token) = "create"
          => nextId <= MaxPlayerIds
    /\ Fault(JoinDecision(tableState, players, name, password, token) = "reconnect")
    /\ Apply(handleJoin(ws, name, password, token))
    /\ UNCHANGED <<now, ticks, graceEndedAt, hook>>

Ready(ws, isReady) ==
    /\ Open(ws)
    /\ Apply(handleReady(ws, isReady))
    /\ UNCHANGED <<now, ticks, faults, graceEndedAt, hook>>

StartGame(ws) ==
    /\ Open(ws)
    /\ Fault(tableState.status # "lobby" /\ handleStartGame(ws).save)
    /\ Apply(handleStartGame(ws))
    /\ UNCHANGED <<now, ticks, graceEndedAt, hook>>

BidStart(ws, clientTimestamp) ==
    /\ Open(ws)
    /\ Fault(clientTimestamp # now /\ handleBidStart(ws, clientTimestamp).save)
    /\ Apply(handleBidStart(ws, clientTimestamp))
    /\ UNCHANGED <<now, ticks, graceEndedAt, hook>>

BidEnd(ws, clientTimestamp) ==
    /\ Open(ws)
    /\ Fault(clientTimestamp # now /\ handleBidEnd(ws, clientTimestamp).save)
    /\ Apply(handleBidEnd(ws, clientTimestamp))
    /\ UNCHANGED <<now, ticks, graceEndedAt, hook>>

InvalidMessage(ws) ==
    /\ Open(ws)
    /\ Apply(webSocketMessageInvalid(ws))
    /\ UNCHANGED <<now, ticks, faults, graceEndedAt, hook>>

Kick(ws, playerId) ==
    /\ Open(ws)
    /\ Fault(handleKick(ws, playerId, Null).save)
    /\ \E w \in (IF SocketsOf(playerId) = {} THEN {Null} ELSE SocketsOf(playerId)) :
          Apply(handleKick(ws, playerId, w))
    /\ UNCHANGED <<now, ticks, graceEndedAt, hook>>

Leave(ws) ==
    /\ Open(ws)
    /\ Fault(handleLeave(ws).save)
    /\ Apply(handleLeave(ws))
    /\ UNCHANGED <<now, ticks, graceEndedAt, hook>>

(* webSocketClose: the client dropped an open socket, or the close that the
   server started (kick, leave) completed *)
WebSocketClose(ws) ==
    /\ sockets[ws].state \in {"open", "closing"}
    /\ Fault(sockets[ws].state = "open")
    /\ Apply(webSocketClose(ws))
    /\ UNCHANGED <<now, ticks, graceEndedAt, hook>>

Alarm ==
    /\ alarmAt # Null
    /\ (tableState.status = "playing" /\ tableState.roundPhase = "pre_round")
          => Len(tableState.roundHistory) < MaxRoundsPlayed
    /\ now' = Max(now, alarmAt)
    /\ graceEndedAt' = IF tableState.status = "playing" /\ tableState.roundPhase = "grace_period"
                       THEN Max(now, alarmAt) ELSE graceEndedAt
    /\ Apply(alarm(Max(now, alarmAt)))
    /\ UNCHANGED <<ticks, faults, hook>>

Next ==
    \/ \E ws \in Wss : Connect(ws)
    \/ \E ws \in Wss, name \in JoinNames(players), pw \in Passwords \cup {NoPassword},
          tok \in {Null} \cup {TokenOf(i) : i \in 1 .. MaxPlayerIds} :
          Join(ws, name, pw, tok)
    \/ \E ws \in Wss, r \in BOOLEAN : Ready(ws, r)
    \/ \E ws \in Wss : StartGame(ws)
    \/ \E ws \in Wss, k \in ClientSkews : BidStart(ws, now + k)
    \/ \E ws \in Wss, k \in ClientSkews : BidEnd(ws, now + k)
    \/ \E ws \in Wss, id \in 1 .. MaxPlayerIds : Kick(ws, id)
    \/ \E ws \in Wss : Leave(ws)
    \/ \E ws \in Wss : InvalidMessage(ws)
    \/ \E ws \in Wss : WebSocketClose(ws)
    \/ Alarm
    \/ \E d \in TickSteps : Tick(d)
    \/ Restart

Spec == Init /\ [][Next]_vars

(* ---- round resolution alone: the first round of a fresh game is in bidding,
   every player has released with some bid, and checkRoundEnd runs ---- *)
MaxRoster == 3
BidChoices == {0, 100, 101, 200, 201, 60100}

ResolveInit ==
    /\ hook = HookUnmounted
    /\ tableState = [status |-> "playing", hostId |-> 1, currentRound |-> 1,
                     roundPhase |-> "bidding", phaseStartTime |-> 4000,
                     roundHistory |-> << >>, passwordHash |-> NoHash,
                     settings |-> Settings(2)]
    /\ \E n \in 1 .. MaxRoster : \E bids \in [1 .. n -> BidChoices] :
          players = [i \in 1 .. n |->
                       [NewSession(tableState, i, <<"player", i>>, i = 1) EXCEPT
                           !.isReady = TRUE, !.currentBidMs = bids[i],
                           !.hasReleasedThisRound = TRUE]]
    /\ stored = Snapshot(tableState, players)
    /\ alarmAt = Null
    /\ sockets = [w \in Wss |-> [state |-> "none", playerId |-> Null]]
    /\ now = 70000
    /\ ticks = 0
    /\ nextId = MaxRoster + 1
    /\ faults = 0
    /\ graceEndedAt = 9000

(* checkRoundEnd, endRound *)
ResolveRound ==
    /\ RoundEnds(tableState, players)
    /\ Apply([Same EXCEPT
                !.ts = EndRoundTable(tableState, players, now),
                !.ps = AfterRound(players, tableState.currentRound),
                !.alarm = now + ROUND_RESULTS_DISPLAY_MS,
                !.save = TRUE])
    /\ UNCHANGED <<now, ticks, faults, graceEndedAt, hook>>

ResolveSpec == ResolveInit /\ [][ResolveRound]_vars

(* ---- the end of a two-round game alone: round 1 was resolved with some bids,
   round 2 is in bidding and every player has released with some bid;
   checkRoundEnd resolves it and the alarm of the resolution ends the game ---- *)
StandingsBids == {0, 150, 400}

StandingsInit ==
    /\ hook = HookUnmounted
    /\ \E n \in 1 .. MaxRoster :
       \E bids1 \in [1 .. n -> StandingsBids], bids2 \in [1 .. n -> StandingsBids] :
          LET ts == [status |-> "playing", hostId |-> 1, currentRound |-> 1,
                     roundPhase |-> "bidding", phaseStartTime |-> 4000,
                     roundHistory |-> << >>, passwordHash |-> NoHash,
                     settings |-> Settings(2)]
              round1 == [i \in 1 .. n |->
                           [NewSession(ts, i, <<"player", i>>, i = 1) EXCEPT
                               !.isReady = TRUE, !.isConnected = (i <= MaxConns),
                               !.currentBidMs = bids1[i], !.hasReleasedThisRound = TRUE]]
              after1 == ResetBids(AfterRound(round1, 1))
          IN  /\ tableState = [EndRoundTable(ts, round1, 9000) EXCEPT
                                  !.currentRound = 2, !.roundPhase = "bidding",
                                  !.phaseStartTime = 17000]
              /\ players = [i \in 1 .. n |->
                               [after1[i] EXCEPT !.currentBidMs = bids2[i],
                                                 !.hasReleasedThisRound = TRUE]]
              /\ sockets = [w \in Wss |->
                               IF w <= n THEN [state |-> "open", playerId |-> w]
                               ELSE [state |-> "none", playerId |-> Null]]
    /\ stored = Snapshot(tableState, players)
    /\ alarmAt = Null
    /\ now = 70000
    /\ ticks = 0
    /\ nextId = MaxRoster + 1
    /\ faults = 0
    /\ graceEndedAt = 22000

StandingsNext == ResolveRound \/ Alarm

StandingsSpec == StandingsInit /\ [][StandingsNext]_vars

(* ---- holds and releases alone: two players sit in the first round of a
   fresh game, in the grace period or in bidding, and send bidStart and bidEnd
   with client clocks that are behind or ahead of the server by any amount ---- *)
LatencySkews == {-100000, -201, -200, -199, -1, 0, 1, 199, 200, 201, 100000}

LatencyInit ==
    /\ hook = HookUnmounted
    /\ \E ph \in {"grace_period", "bidding"} :
          /\ tableState = [status |-> "playing", hostId |-> 1, currentRound |-> 1,
                           roundPhase |-> ph, phaseStartTime |-> 4000,
                           roundHistory |-> << >>, passwordHash |-> NoHash,
                           settings |-> Settings(2)]
          /\ alarmAt = IF ph = "grace_period" THEN 4000 + gracePeriodMs ELSE Null
          /\ graceEndedAt = IF ph = "grace_period" THEN Null ELSE 4000 + gracePeriodMs
          /\ now \in IF ph = "grace_period" THEN {4000, 8900} ELSE {9000, 9100}
    /\ players = [i \in 1 .. maxPlayers |->
                    [NewSession(tableState, i, <<"player", i>>, i = 1) EXCEPT
                        !.isReady = TRUE]]
    /\ sockets = [w \in Wss |->
                    IF w <= maxPlayers THEN [state |-> "open", playerId |-> w]
                    ELSE [state |-> "none", playerId |-> Null]]
    /\ stored = Snapshot(tableState, players)
    /\ ticks = 0
    /\ nextId = maxPlayers + 1
    /\ faults = 0

(* bidStart / bidEnd whose clientTimestamp is off the server clock by k *)
SkewedBidStart(ws, k) ==
    /\ Open(ws)
    /\ Apply(handleBidStart(ws, now + k))
    /\ UNCHANGED <<now, ticks, faults, graceEndedAt, hook>>

SkewedBidEnd(ws, k) ==
    /\ Open(ws)
    /\ Apply(handleBidEnd(ws, now + k))
    /\ UNCHANGED <<now, ticks, faults, graceEndedAt, hook>>

LatencyNext ==
    \/ \E ws \in Wss, k \in LatencySkews : SkewedBidStart(ws, k)
    \/ \E ws \in Wss, k \in LatencySkews : SkewedBidEnd(ws, k)
    \/ \E d \in TickSteps : Tick(d)
    \/ Alarm

LatencySpec == LatencyInit /\ [][LatencyNext]_vars

(* ---- vocabulary of the properties ---- *)
Playing == tableState.status = "playing"
InPhase(ph) == Playing /\ tableState.roundPhase = ph

(* this step resolved a round *)
Resolves ==
    /\ tableState.roundPhase \in {"grace_period", "bidding"}
    /\ tableState'.roundPhase = "resolution"
    /\ Len(tableState'.roundHistory) = Len(tableState.roundHistory) + 1
    /\ Len(players') = Len(players)

(* the result of the round resolved last *)
LastResult(ts) == ts.roundHistory[Len(ts.roundHistory)]

(* the open sockets attached to a session that holds a bid *)
HoldingSockets ==
    {w \in getWebSockets :
        /\ getSessionFromWs(w) # Null
        /\ Get(players, getSessionFromWs(w)).bidStartTime # Null}

(* C1: a hold that began during the grace period and is released in the bidding
   phase is recorded with the time it lasted after the grace period ended (the
   release time, latency-compensated, minus the moment the grace period ended) *)
C1_BidCountsFromGraceEnd ==
    InPhase("bidding") =>
        \A w \in HoldingSockets, k \in ClientSkews :
            LET id == getSessionFromWs(w)
                i == IndexOf(players, id)
                released == AdjustedTime(now, now + k)
            IN  players[i].bidStartTime <= graceEndedAt =>
                    handleBidEnd(w, now + k).ps[i].currentBidMs
                        = Max(0, released - graceEndedAt)

(* the bid each player of the roster carried into the resolution of this step *)
BidOf(i) == players'[i].currentBidMs

(* C2: when one player's bid exceeds every other player's bid by more than
   TIE_THRESHOLD_MS, the resolved round names that player the winner wherever
   the player stands in the registry, gives that player one victory point and
   sets the player's lastWinRound to the round's number *)
C2_ClearLeaderWins ==
    [][Resolves =>
          \A i \in Idx(players) :
              (/\ Len(players) >= 2
               /\ \A j \in Idx(players) \ {i} : BidOf(i) > BidOf(j) + TIE_THRESHOLD_MS)
              => /\ LastResult(tableState').winnerId = players[i].id
                 /\ ~LastResult(tableState').wasTie
                 /\ players'[i].victoryPoints = players[i].victoryPoints + 1
                 /\ players'[i].lastWinRound = tableState.currentRound
                 /\ \A j \in Idx(players) \ {i} :
                       players'[j].victoryPoints = players[j].victoryPoints]_vars

(* a round was resolved whose winner stands last in the registry and led every
   other bid by more than the threshold *)
C2_Witness ==
    /\ InPhase("resolution")
    /\ Len(players) >= 2
    /\ LastResult(tableState).winnerId = players[Len(players)].id
    /\ players[Len(players)].victoryPoints = 1
    /\ \A j \in 1 .. Len(players) - 1 :
          players[Len(players)].currentBidMs > players[j].currentBidMs + TIE_THRESHOLD_MS

(* the participants whose bid is within the threshold of the highest bid *)
MaxBidOf == CHOOSE b \in {BidOf(i) : i \in Idx(players)} :
               \A i \in Idx(players) : BidOf(i) <= b
NearMax == {i \in Idx(players) : BidOf(i) > 0 /\ MaxBidOf - BidOf(i) <= TIE_THRESHOLD_MS}

(* C3: when two or more participants' bids are within TIE_THRESHOLD_MS of the
   highest bid, the round is a tie in every registry order: it has no winner,
   nobody's victory points change, and each participant still pays their bid *)
C3_NearBidsTie ==
    [][(Resolves /\ Cardinality(NearMax) >= 2) =>
          /\ LastResult(tableState').winnerId = Null
          /\ LastResult(tableState').wasTie
          /\ \A i \in Idx(players) :
                /\ players'[i].victoryPoints = players[i].victoryPoints
                /\ BidOf(i) > 0 =>
                      players'[i].timeRemainingMs
                          = Max(0, players[i].timeRemainingMs - BidOf(i))]_vars

(* C4 as written: a resolved round takes exactly the bid off the bank of every
   participant and leaves the bank of a player who bid zero unchanged *)
C4_BankReducedByExactBid ==
    [][Resolves =>
          \A i \in Idx(players) :
              players'[i].timeRemainingMs = players[i].timeRemainingMs - BidOf(i)]_vars

(* C4: a resolved round takes off the bank of every participant, winner or
   not, tie or not, the bid or the whole bank when the bid is larger; the bank
   of a player who bid zero is unchanged *)
C4_BankReducedByBidUpToBank ==
    [][Resolves =>
          \A i \in Idx(players) :
              players'[i].timeRemainingMs
                  = players[i].timeRemainingMs
                      - Min(BidOf(i), players[i].timeRemainingMs)]_vars

(* a resolved first round in which one participant paid their bid in full,
   another bid more than their bank held, and a third did not bid *)
C4_Witness ==
    /\ InPhase("resolution")
    /\ Len(tableState.roundHistory) = 1
    /\ \E i, j, k \in Idx(players) :
          /\ players[i].currentBidMs > 0
          /\ players[i].timeRemainingMs = startingTimeMs - players[i].currentBidMs
          /\ players[j].currentBidMs > startingTimeMs
          /\ players[j].timeRemainingMs = 0
          /\ players[k].currentBidMs = 0
          /\ players[k].timeRemainingMs = startingTimeMs

(* C5: every bank is within 0 .. startingTimeMs, and no event raises the bank
   of a session: not a resolution, a reconnect, a reload of the stored state or
   a repeated startGame *)
C5_BankBoundedAndNeverRaised ==
    [][/\ \A j \in Idx(players') :
             /\ players'[j].timeRemainingMs >= 0
             /\ players'[j].timeRemainingMs <= tableState'.settings.startingTimeMs
       /\ \A i \in Idx(players), j \in Idx(players') :
             players'[j].id = players[i].id =>
                 players'[j].timeRemainingMs <= players[i].timeRemainingMs]_vars

(* a session spent its whole bank: the bid it paid was larger than the bank *)
C5_Witness ==
    \E i \in Idx(players) :
        /\ players[i].timeRemainingMs = 0
        /\ players[i].currentBidMs > tableState.settings.startingTimeMs

(* a session whose connection closed still holds a bid while every connected
   session has released or never started one *)
DroppedMidBid ==
    /\ InPhase("bidding")
    /\ AllReleased(players)
    /\ \E i \in Idx(players) :
          /\ ~players[i].isConnected
          /\ SocketsOf(players[i].id) = {}
          /\ \E w \in Wss : sockets[w] = [state |-> "closed", playerId |-> players[i].id]
          /\ players[i].bidStartTime # Null
          /\ ~players[i].hasReleasedThisRound

(* C6: a round in which the only session still holding has lost its connection
   moves to resolution without a further client message: while it is still in
   the bidding phase the alarm, the only event the object raises by itself, is
   pending *)
C6_DroppedBidDoesNotBlock == DroppedMidBid => alarmAt # Null

(* the sessions that hold a bid over an open socket attached to them *)
LiveHolders(ps, socks) ==
    {i \in Idx(ps) :
        /\ ps[i].bidStartTime # Null
        /\ ~ps[i].hasReleasedThisRound
        /\ \E w \in Wss : socks[w].state = "open" /\ socks[w].playerId = ps[i].id}

(* C7: no round is resolved while a player with a live attached connection
   still holds a bid started in this round *)
C7_NoResolutionWhileConnectedHolds ==
    [][Resolves => LiveHolders(players', sockets') = {}]_vars

(* a release handled now, in the grace period, records a bid of zero *)
GraceReleaseIsZero ==
    tableState.roundPhase = "grace_period" =>
        \A w \in HoldingSockets, k \in ClientSkews :
            LET i == IndexOf(players, getSessionFromWs(w))
                p == handleBidEnd(w, now + k).ps[i]
            IN  /\ p.currentBidMs = 0
                /\ p.hasReleasedThisRound
                /\ p.bidStartTime = Null

(* C8: a bidEnd handled during the grace period records currentBidMs = 0 and
   marks the player released, whenever the hold started; and a player whose bid
   is 0 when the round is resolved keeps their bank *)
C8_GraceReleaseBidsNothing ==
    [][/\ GraceReleaseIsZero'
       /\ Resolves =>
             \A i \in Idx(players) :
                 BidOf(i) = 0 =>
                     players'[i].timeRemainingMs = players[i].timeRemainingMs]_vars

(* a player released during the grace period, some time after it began, while
   another session still holds *)
C8_Witness ==
    /\ InPhase("grace_period")
    /\ now > tableState.phaseStartTime
    /\ HoldingSockets # {}
    /\ \E i \in Idx(players) :
          players[i].hasReleasedThisRound /\ players[i].currentBidMs = 0

(* the joins a client can send with the reconnect token of session i *)
JoinInputs == getWebSockets \X Names \X (Passwords \cup {NoPassword})

(* C9: a join carrying the reconnectToken of a session is answered with a
   welcome for that player id, keeps the session's bank, points and
   lastWinRound, marks it connected and creates no session *)
C9_ReconnectRestoresSession ==
    \A i \in Idx(players), in \in JoinInputs :
        LET r == handleJoin(in[1], in[2], in[3], players[i].reconnectToken) IN
        /\ Msg(in[1], "welcome", players[i].id) \in r.out
        /\ Len(r.ps) = Len(players)
        /\ r.ps[i].id = players[i].id
        /\ r.ps[i].isConnected
        /\ r.ps[i].timeRemainingMs = players[i].timeRemainingMs
        /\ r.ps[i].victoryPoints = players[i].victoryPoints
        /\ r.ps[i].lastWinRound = players[i].lastWinRound

(* C10: a join whose reconnect token matches a session is reattached in every
   table status and with any password, none of the join errors is answered *)
C10_ReconnectDecidedFirst ==
    \A i \in Idx(players), in \in JoinInputs :
        LET r == handleJoin(in[1], in[2], in[3], players[i].reconnectToken) IN
        /\ JoinDecision(tableState, players, in[2], in[3], players[i].reconnectToken)
               = "reconnect"
        /\ r.socks[in[1]].playerId = players[i].id
        /\ \A m \in r.out : m.type # "error"

(* ---- joins ---- *)
(* every join a client can send: socket, name, password, reconnect token *)
AllJoins ==
    getWebSockets \X Names \X (Passwords \cup {NoPassword})
        \X ({Null} \cup {TokenOf(i) : i \in 1 .. MaxPlayerIds})

(* the handler answered the error to the sender and did nothing else *)
Rejected(r, ws, code) ==
    /\ r.out = {Msg(ws, "error", code)}
    /\ r.ts = tableState
    /\ r.ps = players
    /\ r.socks = sockets
    /\ r.next = nextId
    /\ r.alarm = alarmAt
    /\ ~r.save

(* the handler added one fresh session for the sender *)
Created(r, ws, name) ==
    /\ Len(r.ps) = Len(players) + 1
    /\ SubSeq(r.ps, 1, Len(players)) = players
    /\ LET p == r.ps[Len(r.ps)] IN
          /\ p.id \notin Ids(players)
          /\ p.displayName = name
          /\ p.timeRemainingMs = tableState.settings.startingTimeMs
          /\ p.victoryPoints = 0
          /\ ~p.isReady
          /\ p.isConnected
          /\ p.isHost <=> Len(players) = 0
          /\ Msg(ws, "welcome", p.id) \in r.out
          /\ r.socks[ws].playerId = p.id

(* the error of a join, the checks taken in the order started, full, name,
   password ("none": no check fails) *)
ErrorStartedFirst(name, password) ==
    IF tableState.status # "lobby" THEN "GAME_ALREADY_STARTED"
    ELSE IF Len(players) >= tableState.settings.maxPlayers THEN "TABLE_FULL"
    ELSE IF Lower(name) \in LowerNames(players) THEN "NAME_TAKEN"
    ELSE IF PasswordCheck(tableState.passwordHash, password) # "ok" THEN "INVALID_PASSWORD"
    ELSE "none"

(* the same, the password taken first *)
ErrorPasswordFirst(name, password) ==
    IF PasswordCheck(tableState.passwordHash, password) # "ok" THEN "INVALID_PASSWORD"
    ELSE ErrorStartedFirst(name, password)

(* C11 as written, the four checks in the order the claim lists them: a join
   whose token matches no session is rejected with the first failing check's
   error and changes nothing, and creates one session if no check fails *)
C11_JoinRejectedInListedOrder ==
    \A j \in AllJoins :
        LET r == handleJoin(j[1], j[2], j[3], j[4])
            e == ErrorStartedFirst(j[2], j[3])
        IN  TokenMatch(players, j[4]) = 0 =>
                IF e = "none" THEN Created(r, j[1], j[2]) ELSE Rejected(r, j[1], e)

(* C11: a join that does not reattach a session is rejected with
   INVALID_PASSWORD when the password check fails, else GAME_ALREADY_STARTED
   when the status is not lobby, else TABLE_FULL, else NAME_TAKEN, and then
   nothing changes; a join no check rejects creates exactly one session with
   the full bank, no points, not ready, connected, host iff the roster was empty *)
C11_JoinRejectedPasswordFirst ==
    \A j \in AllJoins :
        LET r == handleJoin(j[1], j[2], j[3], j[4])
            e == ErrorPasswordFirst(j[2], j[3])
        IN  JoinDecision(tableState, players, j[2], j[3], j[4]) # "reconnect" =>
                IF e = "none" THEN Created(r, j[1], j[2]) ELSE Rejected(r, j[1], e)

(* a second player joined a password-protected table in lobby: the roster is
   full, the second session is fresh and not the host *)
C11_Witness ==
    /\ tableState.status = "lobby"
    /\ tableState.passwordHash # NoHash
    /\ Len(players) = tableState.settings.maxPlayers
    /\ players[1].isHost
    /\ ~players[2].isHost
    /\ players[2].timeRemainingMs = tableState.settings.startingTimeMs
    /\ players[2].isConnected

(* ---- starting the game ---- *)
(* the open sockets of joined sessions *)
JoinedSockets == {w \in getWebSockets : getSessionFromWs(w) # Null}

(* what the claim expects of a startGame from session id *)
StartExpected(id) ==
    IF id # tableState.hostId THEN "NOT_HOST"
    ELSE IF Len(players) < 2 THEN "NOT_ENOUGH_PLAYERS"
    ELSE IF \E i \in Idx(players) : ~players[i].isReady THEN "PLAYERS_NOT_READY"
    ELSE "start"

(* C12: startGame takes the table from lobby to playing / pre_round with
   currentRound = 1 only when the requester is the host, there are at least two
   players and all are ready; otherwise it answers NOT_HOST,
   NOT_ENOUGH_PLAYERS or PLAYERS_NOT_READY, in that order, to the requester
   and changes nothing *)
C12_StartGameChecked ==
    \A w \in JoinedSockets :
        LET r == handleStartGame(w)
            e == StartExpected(getSessionFromWs(w))
        IN  /\ e # "start" => Rejected(r, w, e)
            /\ (e = "start" /\ tableState.status = "lobby") =>
                  /\ r.ts.status = "playing"
                  /\ r.ts.roundPhase = "pre_round"
                  /\ r.ts.currentRound = 1

(* the game has just been started from lobby *)
C12_Witness ==
    /\ InPhase("pre_round")
    /\ tableState.currentRound = 1
    /\ tableState.roundHistory = << >>
    /\ Len(players) >= 2
    /\ \A i \in Idx(players) : players[i].isReady
    /\ alarmAt = now + PRE_ROUND_COUNTDOWN_MS

(* ---- the round state machine ---- *)
(* the place of a table in the state machine lobby, pre_round, grace_period,
   bidding, resolution, finished *)
Stage(ts) ==
    IF ts.status = "playing" THEN ts.roundPhase ELSE ts.status

(* the edges of the state machine; the alarm that ends the grace period with
   every player released takes grace_period -> bidding -> resolution in one
   handler *)
Edges ==
    {<<"lobby", "pre_round">>, <<"pre_round", "grace_period">>,
     <<"grace_period", "bidding">>, <<"bidding", "resolution">>,
     <<"grace_period", "resolution">>,
     <<"resolution", "pre_round">>, <<"resolution", "finished">>}

(* C13: status and roundPhase change only along lobby -> pre_round ->
   grace_period -> bidding -> resolution -> pre_round | finished, and while the
   status stays playing currentRound is kept or, on resolution -> pre_round,
   incremented: nothing returns a playing table to pre_round or resets
   currentRound *)
C13_OnlyStateMachineEdges ==
    [][/\ <<tableState'.status, tableState'.roundPhase>>
              # <<tableState.status, tableState.roundPhase>>
          => <<Stage(tableState), Stage(tableState')>> \in Edges
       /\ (tableState.status = "playing" /\ tableState'.status = "playing")
          => tableState'.currentRound =
                 IF <<Stage(tableState), Stage(tableState')>> = <<"resolution", "pre_round">>
                 THEN tableState.currentRound + 1 ELSE tableState.currentRound]_vars

(* C14: finished is terminal: once the status is finished no message and no
   alarm changes status, currentRound, roundPhase or roundHistory, nor the bank
   or the victory points of a player *)
C14_FinishedIsTerminal ==
    [][tableState.status = "finished" =>
          /\ tableState'.status = "finished"
          /\ tableState'.currentRound = tableState.currentRound
          /\ tableState'.roundPhase = tableState.roundPhase
          /\ tableState'.roundHistory = tableState.roundHistory
          /\ \A i \in Idx(players), j \in Idx(players') :
                players'[j].id = players[i].id =>
                    /\ players'[j].timeRemainingMs = players[i].timeRemainingMs
                    /\ players'[j].victoryPoints = players[i].victoryPoints]_vars

(* the rounds a table has completed, by its round counter and stage *)
CompletedRounds(ts) ==
    IF ts.status = "lobby" THEN 0
    ELSE IF Stage(ts) \in {"resolution", "finished"} THEN ts.currentRound
    ELSE ts.currentRound - 1

(* the round counter is within its range and roundHistory holds the results of
   the completed rounds 1, 2, ... in order *)
RoundBookkeeping(ts) ==
    /\ ts.status = "lobby" <=> ts.currentRound = 0
    /\ ts.status # "lobby" =>
          (1 <= ts.currentRound /\ ts.currentRound <= ts.settings.numRounds)
    /\ Len(ts.roundHistory) = CompletedRounds(ts)
    /\ \A k \in 1 .. Len(ts.roundHistory) : ts.roundHistory[k].roundNumber = k
    /\ ts.status = "finished" => Len(ts.roundHistory) = ts.settings.numRounds

(* C15: the results alarm takes resolution to pre_round with currentRound + 1
   when currentRound < numRounds and to finished otherwise; currentRound is 0
   in lobby and within 1 .. numRounds afterwards; roundHistory holds one result
   per completed round, numbered 1, 2, ..., is only ever appended to, and has
   numRounds entries when the table is finished *)
C15_RoundBookkeeping ==
    [][/\ RoundBookkeeping(tableState')
       /\ Len(tableState'.roundHistory) >= Len(tableState.roundHistory)
       /\ SubSeq(tableState'.roundHistory, 1, Len(tableState.roundHistory))
              = tableState.roundHistory
       /\ Stage(tableState) = "resolution" =>
             \/ tableState' = tableState
             \/ /\ Stage(tableState') = "pre_round"
                /\ tableState.currentRound < tableState.settings.numRounds
                /\ tableState'.currentRound = tableState.currentRound + 1
             \/ /\ Stage(tableState') = "finished"
                /\ tableState.currentRound >= tableState.settings.numRounds
                /\ tableState'.currentRound = tableState.currentRound]_vars

(* ---- leave and kick ---- *)
(* the roster ps still holds session id of the current roster, disconnected or
   not, with its bank, points, lastWinRound and reconnect token *)
SessionKept(ps, id) ==
    /\ Has(ps, id)
    /\ Get(ps, id).timeRemainingMs = Get(players, id).timeRemainingMs
    /\ Get(ps, id).victoryPoints = Get(players, id).victoryPoints
    /\ Get(ps, id).lastWinRound = Get(players, id).lastWinRound
    /\ Get(ps, id).reconnectToken = Get(players, id).reconnectToken

(* the kicks a host can send: the host's socket, another player, and the socket
   of that player the handler closes (Null: none) *)
HostKicks ==
    {k \in JoinedSockets \X Ids(players) \X (Wss \cup {Null}) :
        /\ Get(players, getSessionFromWs(k[1])).isHost
        /\ k[2] # getSessionFromWs(k[1])
        /\ k[3] \in (IF SocketsOf(k[2]) = {} THEN {Null} ELSE SocketsOf(k[2]))}

(* C16: in lobby a leave removes the leaver's session and a host's kick the
   target's; once the game has started they only disconnect: the session stays
   in the roster with its bank, points, lastWinRound and reconnect token *)
C16_RemovalOnlyInLobby ==
    /\ \A w \in JoinedSockets :
          LET id == getSessionFromWs(w)
              r == handleLeave(w)
          IN  IF tableState.status = "lobby" THEN ~Has(r.ps, id)
              ELSE SessionKept(r.ps, id) /\ ~Get(r.ps, id).isConnected
    /\ \A k \in HostKicks :
          LET r == handleKick(k[1], k[2], k[3]) IN
          IF tableState.status = "lobby" THEN ~Has(r.ps, k[2])
          ELSE SessionKept(r.ps, k[2]) /\ ~Get(r.ps, k[2]).isConnected

(* every kick a client can send: socket, target id, and the socket of the
   target that the handler would close (Null: none) *)
AllKicks ==
    {k \in getWebSockets \X (1 .. MaxPlayerIds) \X (Wss \cup {Null}) :
        k[3] \in (IF SocketsOf(k[2]) = {} THEN {Null} ELSE SocketsOf(k[2]))}

(* C17: a kick changes the roster only when the requester is the current host
   and the target is another player; a non-host's kick is answered NOT_HOST
   and a host's kick of their own id INVALID_ACTION, both changing nothing; a
   kick from a connection with no session does nothing at all *)
C17_KickGuarded ==
    \A k \in AllKicks :
        LET id == getSessionFromWs(k[1])
            r == handleKick(k[1], k[2], k[3])
        IN  /\ id = Null => r = Same
            /\ (id # Null /\ id # tableState.hostId) => Rejected(r, k[1], "NOT_HOST")
            /\ (id # Null /\ id = tableState.hostId /\ k[2] = id)
                    => Rejected(r, k[1], "INVALID_ACTION")
            /\ (r.ps # players \/ r.ts # tableState)
                    => /\ id # Null
                       /\ id = tableState.hostId
                       /\ k[2] # id
                       /\ Has(players, k[2])
                       /\ r.ps = Delete(players, k[2])
                       /\ r.ts = tableState

(* the host's kick removed the other player of a started game: the host alone
   is left and the target's socket is being closed *)
C17_Witness ==
    /\ tableState.status # "lobby"
    /\ Len(players) = 1
    /\ players[1].id = tableState.hostId
    /\ \E w \in Wss :
          /\ sockets[w].state = "closing"
          /\ sockets[w].playerId # Null
          /\ ~Has(players, sockets[w].playerId)

(* ---- rejected actions ---- *)
ErrorCodes ==
    {"TABLE_NOT_FOUND", "TABLE_FULL", "GAME_ALREADY_STARTED", "INVALID_PASSWORD",
     "NAME_TAKEN", "NOT_HOST", "NOT_ENOUGH_PLAYERS", "PLAYERS_NOT_READY", "INVALID_ACTION"}

AnsweredWithError(r) == \E m \in r.out : m.type = "error"

(* the answer r to a message from socket ws, if it holds an error, is that one
   error to ws and changes nothing *)
ErrorRule(ws, r) ==
    AnsweredWithError(r) => \E code \in ErrorCodes : Rejected(r, ws, code)

(* C18: an action that is answered with an error sends exactly that one error,
   with one of the listed codes, to the connection it came from and nothing to
   any other connection, and leaves the table, the roster, the sockets, the
   alarm and the stored state as they were; the actions are every message a
   client can send in the state: join, ready, startGame, bidStart, bidEnd,
   kick, leave and a message the server cannot handle *)
C18_ErrorOnlyToSenderNothingChanged ==
    /\ \A j \in AllJoins : ErrorRule(j[1], handleJoin(j[1], j[2], j[3], j[4]))
    /\ \A k \in AllKicks : ErrorRule(k[1], handleKick(k[1], k[2], k[3]))
    /\ \A w \in getWebSockets :
          /\ ErrorRule(w, handleStartGame(w))
          /\ ErrorRule(w, handleLeave(w))
          /\ ErrorRule(w, webSocketMessageInvalid(w))
          /\ \A b \in BOOLEAN : ErrorRule(w, handleReady(w, b))
          /\ \A d \in ClientSkews :
                /\ ErrorRule(w, handleBidStart(w, now + d))
                /\ ErrorRule(w, handleBidEnd(w, now + d))

(* a running game with two open connections in which a player's startGame,
   a player's kick and a stranger's join would each be answered with an error *)
C18_Witness ==
    /\ Playing
    /\ Cardinality(getWebSockets) >= 2
    /\ Len(players) >= 2
    /\ \E w \in JoinedSockets :
          /\ AnsweredWithError(handleStartGame(w))
          /\ \E id \in Ids(players) : AnsweredWithError(handleKick(w, id, Null))
          /\ \E n \in Names : AnsweredWithError(handleJoin(w, n, NoPassword, Null))

(* ---- final standings ---- *)
(* the three sort keys of a standings entry or a session *)
KeyOf(e) == <<e.victoryPoints, e.timeRemainingMs, LastWinOrZero(e)>>

(* key a ranks strictly above key b: points, then bank, then last-win round *)
Above(a, b) ==
    \/ a[1] > b[1]
    \/ a[1] = b[1] /\ a[2] > b[2]
    \/ a[1] = b[1] /\ a[2] = b[2] /\ a[3] > b[3]

(* st lists every session of ps exactly once with its own points, bank and
   last-win round, in descending key order, equal keys in roster order, and
   ranks 1 .. N in list order *)
Ranked(st, ps) ==
    /\ Len(st) = Len(ps)
    /\ \A i \in Idx(ps) :
          \E j \in 1 .. Len(st) :
             /\ st[j].playerId = ps[i].id
             /\ st[j].victoryPoints = ps[i].victoryPoints
             /\ st[j].timeRemainingMs = ps[i].timeRemainingMs
             /\ st[j].lastWinRound = ps[i].lastWinRound
             /\ \A k \in 1 .. Len(st) : st[k].playerId = ps[i].id => k = j
    /\ \A i, j \in 1 .. Len(st) :
          i < j => /\ ~Above(KeyOf(st[j]), KeyOf(st[i]))
                   /\ KeyOf(st[i]) = KeyOf(st[j])
                         => IndexOf(ps, st[i].playerId) < IndexOf(ps, st[j].playerId)
    /\ \A i \in 1 .. Len(st) : st[i].rank = i

(* the alarm that is pending ends the game *)
GameEnds ==
    /\ InPhase("resolution")
    /\ alarmAt # Null
    /\ tableState.currentRound >= tableState.settings.numRounds

(* C19: the standings of the gameEnd message hold every player exactly once,
   ordered by victory points, then bank, then last-win round (none counting as
   0), all descending, players equal on the three keys in join order, and the
   ranks are 1, 2, ..., N in list order *)
C19_StandingsRanked ==
    GameEnds =>
        LET r == alarm(Max(now, alarmAt)) IN
        /\ r.ts.status = "finished"
        /\ r.ps = players
        /\ \A w \in getWebSockets : \E m \in r.out : m.to = w /\ m.type = "gameEnd"
        /\ \A m \in r.out : m.type = "gameEnd" => Ranked(m.arg, players)

(* a finished game of three players in which two players have equal points
   and equal banks, so that the last-win round decided between them, and the
   standings are not in join order *)
C19_Witness ==
    /\ tableState.status = "finished"
    /\ Len(players) = 3
    /\ \E i, j \in Idx(players) :
          /\ i # j
          /\ players[i].victoryPoints = players[j].victoryPoints
          /\ players[i].timeRemainingMs = players[j].timeRemainingMs
          /\ LastWinOrZero(players[i]) > LastWinOrZero(players[j])
    /\ Standings(players)[1].playerId # players[1].id

(* ---- latency compensation ---- *)
(* the server time now moved back by the distance to the client timestamp ct,
   but by no more than the maximum *)
ClampedTime(ct) ==
    IF Abs(now - ct) <= MAX_LATENCY_COMPENSATION_MS THEN now - Abs(now - ct)
    ELSE now - MAX_LATENCY_COMPENSATION_MS

(* C20: whatever client timestamp a bidStart or bidEnd carries, behind or
   ahead of the server by any amount, the time the server records is now minus
   min(|now - clientTimestamp|, MAX_LATENCY_COMPENSATION_MS): never after now
   and never more than 200 ms before it.  The time of a bidStart is the
   session's bidStartTime; that of a bidEnd is the end of the hold the
   recorded bid is measured to *)
C20_LatencyClamped ==
    \A w \in JoinedSockets, k \in LatencySkews :
        LET id == getSessionFromWs(w)
            p == Get(players, id)
            t == ClampedTime(now + k)
            started == Get(handleBidStart(w, now + k).ps, id)
            ended == Get(handleBidEnd(w, now + k).ps, id)
        IN  /\ BidStartAccepted(tableState, p) =>
                  /\ started.bidStartTime = t
                  /\ started.bidStartTime <= now
                  /\ started.bidStartTime >= now - MAX_LATENCY_COMPENSATION_MS
            /\ (p.bidStartTime # Null /\ tableState.roundPhase = "bidding") =>
                  /\ t <= now
                  /\ t >= now - MAX_LATENCY_COMPENSATION_MS
                  /\ ended.currentBidMs =
                        Max(0, t - Max(p.bidStartTime, tableState.phaseStartTime))

(* two players hold at the same server time: one start was moved back by the
   full 200 ms, the other by less *)
C20_Witness ==
    /\ InPhase("bidding")
    /\ ticks = 0
    /\ \E i, j \in Idx(players) :
          /\ players[i].bidStartTime = now - MAX_LATENCY_COMPENSATION_MS
          /\ players[j].bidStartTime # Null
          /\ players[j].bidStartTime > now - MAX_LATENCY_COMPENSATION_MS
          /\ players[j].bidStartTime < now

(* ---- timers ---- *)
(* how long the timer of a phase runs (Null: the phase arms none) *)
PhaseTimer(ts) ==
    IF ts.status # "playing" THEN Null
    ELSE IF ts.roundPhase = "pre_round" THEN PRE_ROUND_COUNTDOWN_MS
    ELSE IF ts.roundPhase = "grace_period" THEN ts.settings.gracePeriodMs
    ELSE IF ts.roundPhase = "resolution" THEN ROUND_RESULTS_DISPLAY_MS
    ELSE Null

(* the pending alarm is the one that was armed on entry to the current phase *)
ArmedForPhase ==
    /\ alarmAt # Null
    /\ PhaseTimer(tableState) # Null
    /\ alarmAt = tableState.phaseStartTime + PhaseTimer(tableState)

(* the bid state of a roster *)
BidState(ps) ==
    [i \in Idx(ps) |-> <<ps[i].id, ps[i].bidStartTime, ps[i].bidEndTime,
                         ps[i].currentBidMs, ps[i].hasReleasedThisRound>>]

(* C21: the firing of a timer that was not armed for the phase the table is
   in (a stale one, or the reconnect-window cleanup armed on disconnect)
   leaves status, roundPhase, currentRound and every player's bid state
   unchanged *)
C21_OtherTimerLeavesPhase ==
    (alarmAt # Null /\ ~ArmedForPhase) =>
        LET r == alarm(Max(now, alarmAt)) IN
        /\ r.ts.status = tableState.status
        /\ r.ts.roundPhase = tableState.roundPhase
        /\ r.ts.currentRound = tableState.currentRound
        /\ tableState.status # "lobby" => BidState(r.ps) = BidState(players)

(* ---- persistence and reload ---- *)
(* C22: when the handling of an event has completed, the stored tableState and
   players equal the table state and the roster in memory.  Every state is one
   in which no handler is running; the state that Restart leaves is also the
   state after the first message that a reloaded instance answers without
   calling saveState (a ping, a rejected or an ignored message) *)
C22_StoredEqualsMemory == stored = Snapshot(tableState, players)

(* session p with its isConnected flag set to c *)
WithConnected(p, c) == [p EXCEPT !.isConnected = c]

(* C23: a fresh instance that runs loadState has the stored table state, and
   the stored roster with every field of every session as saved except
   isConnected, which is false for every session that has no open connection;
   loadState on an instance that has loaded already changes nothing *)
C23_LoadRestoresLastSave ==
    LET mem == [ts |-> tableState, ps |-> players]
        fresh == loadState(FALSE, mem, stored)
    IN  /\ fresh.ts = stored.tableState
        /\ Len(fresh.ps) = Len(stored.players)
        /\ \A i \in Idx(stored.players) :
              /\ WithConnected(fresh.ps[i], stored.players[i].isConnected) = stored.players[i]
              /\ SocketsOf(stored.players[i].id) = {} => ~fresh.ps[i].isConnected
        /\ loadState(TRUE, fresh, stored) = fresh
        /\ loadState(TRUE, mem, stored) = mem

(* the instance was reloaded in a running game while a player, saved as
   connected, was holding a bid: the session is back with its bid fields *)
C23_Witness ==
    /\ Playing
    /\ tableState = stored.tableState
    /\ players = Loaded(stored.players)
    /\ \E i \in Idx(players) :
          /\ stored.players[i].isConnected
          /\ players[i].bidStartTime # Null

(* ---- disconnected players ---- *)
(* C24: in lobby a startGame of the host starts the game when the roster has
   at least two players and every connected player is ready, whether or not a
   disconnected player of the roster is ready *)
C24_StartIgnoresDisconnectedReady ==
    \A w \in JoinedSockets :
        (/\ tableState.status = "lobby"
         /\ getSessionFromWs(w) = tableState.hostId
         /\ Get(players, tableState.hostId).isConnected
         /\ Len(players) >= 2
         /\ \A i \in Idx(players) : players[i].isConnected => players[i].isReady)
        => LET r == handleStartGame(w) IN
           /\ r.ts.status = "playing"
           /\ r.ts.roundPhase = "pre_round"
           /\ r.ts.currentRound = 1

(* ---- the host ---- *)
(* the host's session has left the roster and a connected player remains *)
HostAbsent ==
    /\ tableState.hostId # Null
    /\ ~Has(players, tableState.hostId)
    /\ \E i \in Idx(players) : players[i].isConnected

(* the earliest-joined connected player of the roster ps *)
FirstConnected(ps) ==
    ps[CHOOSE i \in Idx(ps) :
          ps[i].isConnected /\ \A j \in Idx(ps) : ps[j].isConnected => i <= j].id

(* C25: when the host's session has left the roster while a connected player
   remains, the host is reassigned with no further client message: a timer is
   pending, and its firing makes the earliest-joined connected player the
   host.  With no timer pending the object handles no event until a client
   acts *)
C25_AbsentHostReassigned ==
    HostAbsent =>
        /\ alarmAt # Null
        /\ LET r == alarm(Max(now, alarmAt)) IN
              (\E i \in Idx(r.ps) : r.ps[i].isConnected) =>
                  /\ Has(r.ps, r.ts.hostId)
                  /\ r.ts.hostId = FirstConnected(r.ps)
                  /\ Get(r.ps, r.ts.hostId).isHost

(* ---- connections without a session ---- *)
(* the open sockets that have not completed a join, or whose session is gone *)
Unjoined ==
    {w \in getWebSockets :
        sockets[w].playerId = Null \/ sockets[w].playerId \notin Ids(players)}

(* the handler result r changed nothing and sent nothing *)
Ignored(r) ==
    /\ r.ts = tableState
    /\ r.ps = players
    /\ r.socks = sockets
    /\ r.alarm = alarmAt
    /\ ~r.save
    /\ r.out = {}

(* C26: on a connection without a session, ready, startGame, bidStart,
   bidEnd, kick and leave leave the table state and every player session
   unchanged (they are ignored: nothing is stored, armed or sent) *)
C26_UnjoinedIsIgnored ==
    \A w \in Unjoined :
        /\ \A b \in BOOLEAN : Ignored(handleReady(w, b))
        /\ Ignored(handleStartGame(w))
        /\ \A d \in ClientSkews :
              Ignored(handleBidStart(w, now + d)) /\ Ignored(handleBidEnd(w, now + d))
        /\ \A k \in AllKicks : k[1] = w => Ignored(handleKick(k[1], k[2], k[3]))
        /\ Ignored(handleLeave(w))

(* a lobby with a joined host and a second, open connection that has not
   joined *)
C26_Witness ==
    /\ tableState.status = "lobby"
    /\ Len(players) >= 1
    /\ Has(players, tableState.hostId)
    /\ \E w \in Unjoined : sockets[w].playerId = Null

(* ---- several connections of one identity ---- *)
(* the sockets the messages of the handler result r go to *)
Delivered(r) == {m.to : m \in r.out}

(* of the sockets attached to one session, r reaches at most one *)
OnePerIdentity(r) ==
    \A id \in Ids(players) : Cardinality(Delivered(r) \cap SocketsOf(id)) <= 1

(* C27: once a second connection has joined with the reconnect token of a
   session, what is sent for that identity reaches only one of its
   connections, the latest attached: no broadcast (of a ready change, a bid
   start, a game start, a timer firing) is delivered to two connections of
   the same session *)
C27_FormerConnectionSuperseded ==
    /\ \A w \in JoinedSockets :
          /\ \A b \in BOOLEAN : OnePerIdentity(handleReady(w, b))
          /\ OnePerIdentity(handleBidStart(w, now))
          /\ OnePerIdentity(handleStartGame(w))
    /\ alarmAt # Null => OnePerIdentity(alarm(Max(now, alarmAt)))

(* ---- display names ---- *)
(* C28: no two sessions of the roster have display names that are equal
   ignoring case *)
C28_NamesUniqueIgnoringCase ==
    \A i, j \in Idx(players) :
        i # j => Lower(players[i].displayName) # Lower(players[j].displayName)

(* a full lobby: the second player joined with a name that no session had,
   while joins with the host's name in either case were open to it *)
C28_Witness ==
    /\ tableState.status = "lobby"
    /\ Len(players) = 2
    /\ players[1].displayName # players[2].displayName
    /\ \E n \in Names : n # players[1].displayName /\ Lower(n) = Lower(players[1].displayName)

(* ---- the end of the grace period ---- *)
(* C29: the firing of the timer in the grace period puts the table into
   bidding and checks for the end of the round in the same event: if a player
   with a live connection has a bid in progress the table is in bidding with
   the history as it was, and if no session that is connected has one the
   round is resolved at once (resolution, one RoundResult more, the results
   timer armed) *)
C29_GraceExpiryChecksRoundEnd ==
    (InPhase("grace_period") /\ alarmAt # Null) =>
        LET t == Max(now, alarmAt)
            r == alarm(t)
        IN  /\ LiveHolders(players, sockets) # {} =>
                 /\ r.ts.roundPhase = "bidding"
                 /\ r.ts.roundHistory = tableState.roundHistory
                 /\ BidState(r.ps) = BidState(players)
            /\ (LiveHolders(players, sockets) = {} /\ AllReleased(players)) =>
                 /\ r.ts.roundPhase = "resolution"
                 /\ Len(r.ts.roundHistory) = Len(tableState.roundHistory) + 1
                 /\ r.alarm = t + ROUND_RESULTS_DISPLAY_MS

(* ---- resolution and disconnected players ---- *)
(* the sessions of ps without those that are disconnected: marked so and
   with no open connection attached *)
WithConnection(ps, socks) ==
    SelectSeq(ps, LAMBDA p :
        \/ p.isConnected
        \/ \E w \in Wss : socks[w].state = "open" /\ socks[w].playerId = p.id)

(* C30: a round is resolved from the bids of the players connected at that
   time alone: the winner, the tie flag and the winning bid of the recorded
   result are those of the roster without the sessions that have no
   connection *)
C30_ResolutionIgnoresDisconnected ==
    [][Resolves =>
          LET e == Resolve(WithConnection(players', sockets'))
              res == LastResult(tableState')
          IN  /\ res.winnerId = e.winnerId
              /\ res.wasTie = e.wasTie
              /\ res.winningBidMs = e.maxBid]_vars

(* ---- bids that are ignored ---- *)
(* C31: a bidStart is ignored unless the status is playing, the phase is
   grace_period or bidding and the sender has no bid in progress; a bidEnd is
   ignored when the sender has no bid in progress.  Ignored: the table, the
   roster (the sender's bidStartTime included), the sockets and the alarm stay
   as they are, nothing is stored or sent *)
C31_BidsIgnoredOutOfTurn ==
    \A w \in JoinedSockets, k \in ClientSkews :
        LET p == Get(players, getSessionFromWs(w)) IN
        /\ ~(/\ tableState.status = "playing"
             /\ tableState.roundPhase \in {"grace_period", "bidding"}
             /\ p.bidStartTime = Null)
              => Ignored(handleBidStart(w, now + k))
        /\ p.bidStartTime = Null => Ignored(handleBidEnd(w, now + k))

(* in the bidding phase one connected player has a bid in progress and another
   has released: a bidStart of the former and a bidEnd of the latter are out
   of turn *)
C31_Witness ==
    /\ InPhase("bidding")
    /\ \E i \in Idx(players) : players[i].hasReleasedThisRound
    /\ \E w \in JoinedSockets : Get(players, getSessionFromWs(w)).bidStartTime # Null
    /\ \E w \in JoinedSockets : Get(players, getSessionFromWs(w)).bidStartTime = Null

(* ---- the start of a round ---- *)
(* C32: in pre_round every player of the roster, connected or not, has no
   bid start, no bid end, a recorded bid of 0 and has not released *)
C32_BidStateClearedInPreRound ==
    InPhase("pre_round") =>
        \A i \in Idx(players) :
            /\ players[i].bidStartTime = Null
            /\ players[i].bidEndTime = Null
            /\ players[i].currentBidMs = 0
            /\ ~players[i].hasReleasedThisRound

(* the second round is about to start after a round in which a player was
   charged a bid *)
C32_Witness ==
    /\ InPhase("pre_round")
    /\ tableState.currentRound = 2
    /\ Len(tableState.roundHistory) = 1
    /\ \E i \in Idx(players) :
          players[i].timeRemainingMs < tableState.settings.startingTimeMs

(* ---- the connected flag ---- *)
(* C33: a session with at least one live attached connection has
   isConnected = TRUE, also after a former connection of the same identity
   has closed and after the state was reloaded *)
C33_ConnectedWhileAttached ==
    \A i \in Idx(players) :
        SocketsOf(players[i].id) # {} => players[i].isConnected

(* ---- phase deadlines ---- *)
(* C34: whatever connections close during pre_round, grace_period or
   resolution, the alarm that takes the table out of the phase is due no
   later than the phase's duration after the phase was entered *)
C34_PhaseDeadlineKept ==
    (PhaseTimer(tableState) # Null /\ alarmAt # Null) =>
        alarmAt <= tableState.phaseStartTime + PhaseTimer(tableState)

(* ---- timer-driven phases never stall ---- *)
(* how far a playing table is from the end of the game: rounds still to come,
   then the place of the phase in its round *)
Remaining(ts) ==
    4 * (ts.settings.numRounds - ts.currentRound)
      + (IF ts.roundPhase = "pre_round" THEN 3
         ELSE IF ts.roundPhase = "grace_period" THEN 2
         ELSE IF ts.roundPhase = "bidding" THEN 1 ELSE 0)

(* C35: in pre_round, grace_period and resolution an alarm is pending, and its
   firing takes the table to bidding, to finished, or to a timer-driven phase
   nearer to the end of the game with the next alarm armed; so fair firing
   of the alarm leads every such table to bidding or finished *)
C35_TimerPhaseHasAlarm ==
    PhaseTimer(tableState) # Null =>
        /\ alarmAt # Null
        /\ LET r == alarm(Max(now, alarmAt)) IN
           \/ r.ts.status = "finished"
           \/ r.ts.status = "playing" /\ r.ts.roundPhase = "bidding"
           \/ /\ PhaseTimer(r.ts) # Null
              /\ r.alarm # Null
              /\ Remaining(r.ts) < Remaining(tableState)

(* a timer-driven phase in which a player has disconnected and the pending
   alarm is the one the disconnect armed *)
C35_Witness ==
    /\ PhaseTimer(tableState) # Null
    /\ \E i \in Idx(players) : ~players[i].isConnected
    /\ alarmAt # Null
    /\ ~ArmedForPhase

(* ---- one bid per round ---- *)
(* the recorded bid and the bid in progress of the session id in roster ps *)
HoldOf(ps, id) == <<Get(ps, id).currentBidMs, Get(ps, id).bidStartTime>>

(* C36: once a player has released in a round, that player has no bid in
   progress, and neither a bidStart nor a bidEnd from the player changes
   currentBidMs or starts a bid *)
C36_FirstReleaseFixesBid ==
    \A w \in JoinedSockets, k \in ClientSkews :
        LET id == getSessionFromWs(w) IN
        Get(players, id).hasReleasedThisRound =>
            /\ Get(players, id).bidStartTime = Null
            /\ HoldOf(handleBidStart(w, now + k).ps, id) = HoldOf(players, id)
            /\ HoldOf(handleBidEnd(w, now + k).ps, id) = HoldOf(players, id)

(* ---- resolution and registry order ---- *)
(* the orderings of a roster of n players *)
Orderings(n) == {f \in [1 .. n -> 1 .. n] : \A i, j \in 1 .. n : f[i] = f[j] => i = j}
Reordered(ps, f) == [i \in Idx(ps) |-> ps[f[i]]]

(* C37: for every ordering of the same players with the same bids, endRound
   yields the same winner (or none), the same tie flag, the same winning bid
   and, for every player, the same victory points and bank *)
C37_ResolutionIgnoresOrder ==
    \A f \in Orderings(Len(players)) :
        LET qs == Reordered(players, f) IN
        /\ Resolve(qs) = Resolve(players)
        /\ \A i \in Idx(players) :
              AfterRound(qs, tableState.currentRound)[i]
                  = AfterRound(players, tableState.currentRound)[f[i]]

(* ---- the host ---- *)
(* C38: at most one session has isHost, a session has isHost exactly when its
   id is the table's hostId, and in lobby with a non-empty roster hostId names
   a session of the roster *)
C38_OneHostInRoster ==
    /\ Cardinality({i \in Idx(players) : players[i].isHost}) <= 1
    /\ \A i \in Idx(players) : players[i].isHost <=> players[i].id = tableState.hostId
    /\ (tableState.status = "lobby" /\ players # << >>) => Has(players, tableState.hostId)

(* ---- the lobby after a disconnect: two players have joined, each has set
   or not set ready, and the connection of one of them has closed, so the
   cleanup alarm is pending; then joins, ready flags, the start of the game,
   kicks, leaves, closes, a reload and the alarm ---- *)
SweepInit ==
    /\ hook = HookUnmounted
    /\ \E h \in {NoHash, hashPassword("pw")}, n \in NumRoundsChoices :
          tableState = [status |-> "lobby", hostId |-> 1, currentRound |-> 0,
                        roundPhase |-> "pre_round", phaseStartTime |-> 1000,
                        roundHistory |-> << >>, passwordHash |-> h,
                        settings |-> Settings(n)]
    /\ \E d \in 1 .. maxPlayers, ready \in [1 .. maxPlayers -> BOOLEAN] :
          /\ players = [i \in 1 .. maxPlayers |->
                          [NewSession(tableState, i, IF i = 1 THEN "ann" ELSE "bob", i = 1)
                              EXCEPT !.isReady = ready[i], !.isConnected = (i # d)]]
          /\ sockets = [w \in Wss |->
                          [state |-> IF w = d THEN "closed" ELSE "open", playerId |-> w]]
    /\ stored = Snapshot(tableState, players)
    /\ alarmAt = 1000 + RECONNECT_WINDOW_MS
    /\ now = 1000
    /\ ticks = 0
    /\ nextId = maxPlayers + 1
    /\ faults = 0
    /\ graceEndedAt = Null

SweepNext ==
    \/ \E ws \in Wss, name \in JoinNames(players), pw \in Passwords \cup {NoPassword},
          tok \in {Null} \cup {TokenOf(i) : i \in 1 .. MaxPlayerIds} :
          Join(ws, name, pw, tok)
    \/ \E ws \in Wss, r \in BOOLEAN : Ready(ws, r)
    \/ \E ws \in Wss : StartGame(ws)
    \/ \E ws \in Wss, id \in 1 .. MaxPlayerIds : Kick(ws, id)
    \/ \E ws \in Wss : Leave(ws)
    \/ \E ws \in Wss : WebSocketClose(ws)
    \/ Alarm
    \/ Restart

SweepSpec == SweepInit /\ [][SweepNext]_vars

(* ---- removal from the roster ---- *)
(* the step is the leave of player id in lobby *)
LeftInLobby(id) ==
    \E w \in JoinedSockets :
        /\ getSessionFromWs(w) = id
        /\ tableState.status = "lobby"
        /\ players' = handleLeave(w).ps

(* the step is a host's kick of player id *)
KickedByHost(id) ==
    \E k \in HostKicks : k[2] = id /\ players' = handleKick(k[1], k[2], k[3]).ps

(* the step is the alarm's cleanup in lobby, and player id had no connection *)
SweptWhileGone(id) ==
    /\ alarmAt # Null
    /\ players' = alarm(Max(now, alarmAt)).ps
    /\ tableState.status = "lobby"
    /\ ~Get(players, id).isConnected
    /\ SocketsOf(id) = {}

(* C39: a session leaves the roster only by its player's leave in lobby, by a
   host's kick, or by the cleanup sweep in lobby of a session that is
   disconnected; the sweep removes no session that has a live connection and
   none while the table is playing or finished *)
C39_RemovalOnlyByLeaveKickSweep ==
    [][\A id \in Ids(players) \ Ids(players') :
          LeftInLobby(id) \/ KickedByHost(id) \/ SweptWhileGone(id)]_vars

(* ---- the client hook useWebSocket alone: the component mounts with a table
   id or without one, unmounts, calls disconnect; the sockets open, fail and
   close; the reconnect timeouts fire.  hook.webSockets holds every WebSocket
   the hook created, in order of creation, with its readyState and who closed
   it; hook.timers holds the pending timeouts as <<id, tableId of the closure's
   connect>>; hook.disconnected is history: disconnect() was called and the
   effect has not run connect() since ---- *)
MaxHookSockets == 3
HookTableIds == {Null, 1}

(* wsRef.current?.readyState *)
ReadyStateOf(h) == IF h.wsRef = Null THEN "none" ELSE h.webSockets[h.wsRef].readyState

(* connect of a render with this tableId *)
connect(h, tableId) ==
    IF tableId = Null THEN h
    ELSE IF ReadyStateOf(h) \in {"OPEN", "CONNECTING"} THEN h
    ELSE [h EXCEPT !.webSockets = Append(@, [readyState |-> "CONNECTING",
                                             tableId |-> tableId,
                                             closedBy |-> "none"]),
                   !.wsRef = Len(h.webSockets) + 1]

(* WebSocket.close() called by who: the close event follows later *)
close(sock, who) ==
    IF sock.readyState \in {"CONNECTING", "OPEN"}
    THEN [sock EXCEPT !.readyState = "CLOSING", !.closedBy = who]
    ELSE sock

(* disconnect *)
disconnect(h) ==
    LET cleared == IF h.reconnectTimeoutRef # Null
                   THEN [h EXCEPT !.timers = {tm \in @ : tm[1] # h.reconnectTimeoutRef},
                                  !.reconnectTimeoutRef = Null]
                   ELSE h
    IN  IF cleared.wsRef # Null
        THEN [cleared EXCEPT !.webSockets[cleared.wsRef] = close(@, "disconnect"),
                             !.wsRef = Null]
        ELSE cleared

(* ws.onopen of socket i *)
onopen(h, i) ==
    [h EXCEPT !.webSockets[i].readyState = "OPEN", !.isConnected = TRUE]

(* the close event of socket i: ws.onclose *)
onclose(h, i) ==
    [h EXCEPT !.webSockets[i].readyState = "CLOSED",
              !.isConnected = FALSE,
              !.wsRef = Null,
              !.reconnectTimeoutRef = h.nextTimer,
              !.timers = @ \cup {<<h.nextTimer, h.webSockets[i].tableId>>},
              !.nextTimer = @ + 1]

(* ws.onerror of socket i *)
onerror(h, i) == [h EXCEPT !.webSockets[i] = close(@, "error")]

serverVars == <<tableState, players, stored, alarmAt, sockets, now, ticks, nextId, faults, graceEndedAt>>

(* the effect runs: connect() *)
Mount(tableId) ==
    /\ ~hook.mounted
    /\ Len(hook.webSockets) < MaxHookSockets
    /\ hook' = connect([hook EXCEPT !.mounted = TRUE, !.tableId = tableId,
                                    !.disconnected = FALSE], tableId)
    /\ UNCHANGED serverVars

(* the effect's cleanup, on unmount or before the effect runs again: disconnect() *)
Unmount ==
    /\ hook.mounted
    /\ hook' = disconnect([hook EXCEPT !.mounted = FALSE, !.disconnected = TRUE])
    /\ UNCHANGED serverVars

(* the component calls the returned disconnect *)
Disconnect ==
    /\ hook.mounted
    /\ hook' = disconnect([hook EXCEPT !.disconnected = TRUE])
    /\ UNCHANGED serverVars

(* the connection of socket i is established *)
SocketOpen(i) ==
    /\ i <= Len(hook.webSockets)
    /\ hook.webSockets[i].readyState = "CONNECTING"
    /\ hook' = onopen(hook, i)
    /\ UNCHANGED serverVars

(* an error event on socket i *)
SocketError(i) ==
    /\ i <= Len(hook.webSockets)
    /\ hook.webSockets[i].readyState \in {"CONNECTING", "OPEN"}
    /\ hook' = onerror(hook, i)
    /\ UNCHANGED serverVars

(* the close event of socket i: the close that was asked for completes, or the
   server or the network ended the connection *)
SocketClose(i) ==
    /\ i <= Len(hook.webSockets)
    /\ hook.webSockets[i].readyState # "CLOSED"
    /\ hook' = onclose(hook, i)
    /\ UNCHANGED serverVars

(* a pending reconnect timeout fires: connect() of its closure *)
Timeout(tm) ==
    /\ tm \in hook.timers
    /\ Len(hook.webSockets) < MaxHookSockets
    /\ hook' = connect([hook EXCEPT !.timers = @ \ {tm}], tm[2])
    /\ UNCHANGED serverVars

HookNext ==
    \/ \E t \in HookTableIds : Mount(t)
    \/ Unmount
    \/ Disconnect
    \/ \E i \in 1 .. MaxHookSockets : SocketOpen(i)
    \/ \E i \in 1 .. MaxHookSockets : SocketError(i)
    \/ \E i \in 1 .. MaxHookSockets : SocketClose(i)
    \/ \E tm \in (1 .. MaxHookSockets) \X HookTableIds : Timeout(tm)

HookSpec == Init /\ [][HookNext]_vars

(* ---- the hook after disconnect ---- *)
(* socket i received its close event in this step *)
ClosedNow(i) ==
    /\ i <= Len(hook.webSockets)
    /\ hook.webSockets[i].readyState # "CLOSED"
    /\ hook'.webSockets[i].readyState = "CLOSED"

(* the sockets of h that are open or connecting *)
Live(h) == {i \in 1 .. Len(h.webSockets) : h.webSockets[i].readyState \in {"OPEN", "CONNECTING"}}

(* C40: once disconnect() was called no new connection is opened; the close
   event of a socket closed by disconnect() schedules no reconnect; at most one
   socket of the hook is open or connecting; an involuntary close schedules
   exactly one reconnect attempt *)
C40_DisconnectStopsReconnecting ==
    [][/\ (hook.disconnected /\ hook'.disconnected)
             => Len(hook'.webSockets) = Len(hook.webSockets)
       /\ \A i \in 1 .. MaxHookSockets :
             (ClosedNow(i) /\ hook.webSockets[i].closedBy = "disconnect")
                 => hook'.timers = hook.timers
       /\ Cardinality(Live(hook')) <= 1
       /\ \A i \in 1 .. MaxHookSockets :
             (ClosedNow(i) /\ hook.webSockets[i].closedBy # "disconnect")
                 => /\ hook.timers \subseteq hook'.timers
                    /\ Cardinality(hook'.timers \ hook.timers) = 1]_vars

=============================================================================
